---- MODULE Spec2Model ----
(***************************************************************************)
(* A model of summarize_test_results.py: the fold of a directory of JSON   *)
(* test artifacts into the summary (compute_test_summary), and the         *)
(* rendering and routing of the report (format_* and the main block).      *)
(*                                                                         *)
(* Python values are modelled as follows.                                  *)
(*  - a str is a TLA+ string; a timestamp str, which the code splits on    *)
(*    ".", is a sequence of tokens, the token "." being the dot;           *)
(*  - a dict is the sequence of its <<key, value>> items in insertion      *)
(*    order (Python dicts iterate in insertion order, and the tables and   *)
(*    the slowest-branch choice depend on it); a dict used as a set maps   *)
(*    its members to TRUE;                                                 *)
(*  - a datetime is its number of seconds since 2021-11-29T00:00:00, a     *)
(*    timedelta a number of seconds;                                       *)
(*  - a file written with print() is the sequence of the items printed.    *)
(***************************************************************************)
EXTENDS Integers, Sequences, FiniteSets, TLC

VARIABLES
    args,                 \* argparse result: [out, limit], limit 0 when not given
    env,                  \* which of the environment variables are set
    dir_listing,          \* os.listdir(test_dir), a sequence of files
    idx,                  \* position of the for loop in dir_listing
    pc,                   \* "compute", "report", "limit", "alerts", "done", "aborted"
    total_runs,
    total_fails,
    total_special_fails,
    by_test,
    by_failing_code,
    by_special_failures,
    by_matrix,
    by_k8s,
    by_postgres,
    by_platform,
    test_durations,
    suite_durations,
    out_file,             \* the file named by --out
    step_summary,         \* the file named by GITHUB_STEP_SUMMARY
    full_summary_md,      \* the fallback file full-summary.md
    github_output,        \* the file named by GITHUB_OUTPUT
    stdout

summary_vars == <<total_runs, total_fails, total_special_fails, by_test,
                  by_failing_code, by_special_failures, by_matrix, by_k8s,
                  by_postgres, by_platform, test_durations, suite_durations>>

output_vars == <<out_file, step_summary, full_summary_md, github_output, stdout>>

vars == <<args, env, dir_listing, idx, pc, summary_vars, output_vars>>

-----------------------------------------------------------------------------
(* Bounds *)

\* the longest directory listing
MaxFiles == 3

-----------------------------------------------------------------------------
(* Python dict, as the sequence of its items in insertion order *)

EmptyDict == <<>>

\* k in d
In(k, d) == \E i \in 1..Len(d) : d[i][1] = k

\* d[k]
Get(d, k) == d[CHOOSE i \in 1..Len(d) : d[i][1] = k][2]

\* d[k] = v : an existing key keeps its position
Put(d, k, v) ==
    IF In(k, d)
    THEN [i \in 1..Len(d) |-> IF d[i][1] = k THEN <<k, v>> ELSE d[i]]
    ELSE Append(d, <<k, v>>)

\* list(d.keys())
Keys(d) == [i \in 1..Len(d) |-> d[i][1]]

KeySet(d) == {d[i][1] : i \in 1..Len(d)}

-----------------------------------------------------------------------------
(* Artifact classifier *)

\* is_failed without its ignoreFailed test
is_failed_ignoring(e2e_test) ==
    /\ e2e_test["state"] # "passed"
    /\ e2e_test["state"] # "skipped"

is_failed(e2e_test) ==
    /\ e2e_test["state"] # "passed"
    /\ e2e_test["state"] # "skipped"
    /\ e2e_test["state"] # "ignoreFailed"

is_external_failure(e2e_test) ==
    is_failed(e2e_test) /\ e2e_test["state"] # "failed"

special_failures == {"operator was restarted", "operator was renamed"}

is_special_error(e2e_test) ==
    "error" \in DOMAIN e2e_test /\ e2e_test["error"] \in special_failures

special_tests == {"Open Ginkgo report"}

is_ginkgo_report_failure(e2e_test) ==
    "error" \in DOMAIN e2e_test /\ e2e_test["name"] \in special_tests

\* is_normal_failure without its test on the special errors
is_normal_failure_with_special_errors(e2e_test) ==
    /\ is_failed(e2e_test)
    /\ ~is_external_failure(e2e_test)
    /\ ~is_ginkgo_report_failure(e2e_test)

is_normal_failure(e2e_test) ==
    /\ is_failed(e2e_test)
    /\ ~is_special_error(e2e_test)
    /\ ~is_external_failure(e2e_test)
    /\ ~is_ginkgo_report_failure(e2e_test)

-----------------------------------------------------------------------------
(* Validation and normalisation of a parsed JSON document.  A file is      *)
(* [suffix, kind, obj, items]: kind "malformed" is text json.load rejects, *)
(* "object" a JSON object (obj its members), "array" a JSON array of       *)
(* strings (items), "scalar" a JSON number, true, false or null.           *)

should_have ==
    <<"name", "state", "start_time", "end_time", "error", "error_file",
      "error_line", "platform", "postgres_kind", "matrix_id",
      "postgres_version", "k8s_version", "workflow_id", "repo", "branch">>

\* json.load raises JSONDecodeError
json_load_raises(file) == file.kind = "malformed"

\* `field not in test_entry` raises TypeError: a number, a boolean and None
\* are not containers
membership_raises(file) == file.kind = "scalar"

\* field in test_entry, for a dict (its keys) and for a list (its elements)
Contains(file, field) ==
    IF file.kind = "object"
    THEN field \in DOMAIN file.obj
    ELSE \E i \in 1..Len(file.items) : file.items[i] = field

is_test_artifact(file) ==
    \A i \in 1..Len(should_have) : Contains(file, should_have[i])

\* test_entry["postgres_kind"] raises TypeError on a list
subscript_raises(file) == file.kind = "array"

combine_postgres_data(test_entry) ==
    LET pgkind == test_entry["postgres_kind"]
        pgversion == test_entry["postgres_version"]
    IN  ("pg_version" :> (pgkind \o "-" \o pgversion)) @@ test_entry

-----------------------------------------------------------------------------
(* Bucketing *)

Incr(d, k) == Put(d, k, 1 + (IF In(k, d) THEN Get(d, k) ELSE 0))

\* d[k][member] = True, d[k] created empty when missing
AddMember(d, k, member) ==
    Put(d, k, Put(IF In(k, d) THEN Get(d, k) ELSE EmptyDict, member, TRUE))

\* count_bucketed_by_test counting the report failures as well
count_bucketed_by_test_any_failure(test_results, bt) ==
    LET name == test_results["name"]
        counted == [bt EXCEPT !.total = Incr(bt.total, name)]
    IN  IF is_failed(test_results)
        THEN [counted EXCEPT
                !.failed = Incr(bt.failed, name),
                !.k8s_versions_failed =
                    AddMember(bt.k8s_versions_failed, name, test_results["k8s_version"]),
                !.pg_versions_failed =
                    AddMember(bt.pg_versions_failed, name, test_results["pg_version"]),
                !.platforms_failed =
                    AddMember(bt.platforms_failed, name, test_results["platform"])]
        ELSE counted

count_bucketed_by_test(test_results, bt) ==
    LET name == test_results["name"]
        counted == [bt EXCEPT !.total = Incr(bt.total, name)]
    IN  IF is_failed(test_results) /\ ~is_ginkgo_report_failure(test_results)
        THEN [counted EXCEPT
                !.failed = Incr(bt.failed, name),
                !.k8s_versions_failed =
                    AddMember(bt.k8s_versions_failed, name, test_results["k8s_version"]),
                !.pg_versions_failed =
                    AddMember(bt.pg_versions_failed, name, test_results["pg_version"]),
                !.platforms_failed =
                    AddMember(bt.platforms_failed, name, test_results["platform"])]
        ELSE counted

\* f"{errfile}:{errline}"
err_desc(test_results) ==
    test_results["error_file"] \o ":" \o test_results["error_line"]

\* count_bucketed_by_code without the skip of special failures
count_bucketed_by_code_any_failure(test_results, bc) ==
    IF test_results["error"] = "" \/ test_results["state"] = "ignoreFailed"
    THEN bc
    ELSE IF ~is_failed(test_results)
    THEN bc
    ELSE LET key == err_desc(test_results)
         IN  [total  |-> Incr(bc.total, key),
              tests  |-> AddMember(bc.tests, key, test_results["name"]),
              errors |-> IF In(key, bc.errors)
                         THEN bc.errors
                         ELSE Put(bc.errors, key, test_results["error"])]

count_bucketed_by_code(test_results, bc) ==
    IF test_results["error"] = "" \/ test_results["state"] = "ignoreFailed"
    THEN bc
    ELSE IF ~is_normal_failure(test_results)
    THEN bc
    ELSE LET key == err_desc(test_results)
         IN  [total  |-> Incr(bc.total, key),
              tests  |-> AddMember(bc.tests, key, test_results["name"]),
              errors |-> IF In(key, bc.errors)
                         THEN bc.errors
                         ELSE Put(bc.errors, key, test_results["error"])]

\* the label a special failure is counted under
failure_label(test_results) ==
    LET failure == IF is_external_failure(test_results)
                   THEN test_results["state"]
                   ELSE ""
    IN  IF is_special_error(test_results) \/ is_ginkgo_report_failure(test_results)
        THEN test_results["error"]
        ELSE failure

count_bucketed_by_special_failures(test_results, bs) ==
    IF ~is_failed(test_results) \/ is_normal_failure(test_results)
    THEN bs
    ELSE LET failure == failure_label(test_results)
         IN  [total               |-> Incr(bs.total, failure),
              tests_failed        |->
                  AddMember(bs.tests_failed, failure, test_results["name"]),
              k8s_versions_failed |->
                  AddMember(bs.k8s_versions_failed, failure, test_results["k8s_version"]),
              pg_versions_failed  |->
                  AddMember(bs.pg_versions_failed, failure, test_results["pg_version"]),
              platforms_failed    |->
                  AddMember(bs.platforms_failed, failure, test_results["platform"])]

\* count_bucketized_stats counting as by_test does, report failures left out
count_bucketized_as_by_test(test_results, buckets, field_id) ==
    LET bucket_id == test_results[field_id]
    IN  [total  |-> Incr(buckets.total, bucket_id),
         failed |-> IF is_failed(test_results) /\ ~is_ginkgo_report_failure(test_results)
                    THEN Incr(buckets.failed, bucket_id)
                    ELSE buckets.failed]

\* count_bucketized_stats counting each failure twice
count_bucketized_stats_twice(test_results, buckets, field_id) ==
    LET bucket_id == test_results[field_id]
    IN  [total  |-> Incr(buckets.total, bucket_id),
         failed |-> IF is_failed(test_results)
                    THEN Incr(Incr(buckets.failed, bucket_id), bucket_id)
                    ELSE buckets.failed]

count_bucketized_stats(test_results, buckets, field_id) ==
    LET bucket_id == test_results[field_id]
    IN  [total  |-> Incr(buckets.total, bucket_id),
         failed |-> IF is_failed(test_results)
                    THEN Incr(buckets.failed, bucket_id)
                    ELSE buckets.failed]

-----------------------------------------------------------------------------
(* Duration tracking *)

\* the timestamp ginkgo writes for "no time"
NullTime == <<"0001-01-01T00:00:00Z">>

\* str.split("."): the fragments between the dots
RECURSIVE split(_)
split(s) ==
    IF s = <<>>
    THEN << <<>> >>
    ELSE LET rest == split(Tail(s))
         IN  IF Head(s) = "."
             THEN << <<>> >> \o rest
             ELSE << <<Head(s)>> \o rest[1] >> \o Tail(rest)

\* the texts datetime.fromisoformat accepts, with the datetime each denotes
\* (seconds since 2021-11-29T00:00:00)
IsoTable ==
    ("2021-11-29T18:28:37" :> 66517) @@ ("2021-11-29T18:29:07" :> 66547) @@
    ("2021-11-29T18:30:00" :> 66600) @@ ("2021-11-29T18:31:07" :> 66667) @@
    ("2021-11-30T18:31:07" :> 153067)

\* datetime.fromisoformat raises ValueError
fromisoformat_raises(frag) == ~(Len(frag) = 1 /\ frag[1] \in DOMAIN IsoTable)

fromisoformat(frag) == IsoTable[frag[1]]

\* the name a test's durations are kept under
tagged_name(test_results) ==
    IF is_external_failure(test_results)
    THEN "[" \o test_results["state"] \o "] " \o test_results["name"]
    ELSE IF is_special_error(test_results)
    THEN "[" \o test_results["error"] \o "] " \o test_results["name"]
    ELSE test_results["name"]

\* time_not_tracked without the tests on the number of fragments
time_not_tracked_null_only(test_results) ==
    \/ test_results["start_time"] = NullTime
    \/ test_results["end_time"] = NullTime

\* the early returns of track_time_taken
time_not_tracked(test_results) ==
    \/ test_results["start_time"] = NullTime
    \/ test_results["end_time"] = NullTime
    \/ Len(split(test_results["start_time"])) # 2
    \/ Len(split(test_results["end_time"])) # 2

\* track_time_taken raises ValueError
track_time_raises(test_results) ==
    /\ ~time_not_tracked(test_results)
    /\ \/ fromisoformat_raises(split(test_results["start_time"])[1])
       \/ fromisoformat_raises(split(test_results["end_time"])[1])

\* track_test_times with min set by every record, whatever its duration
track_test_times_min_last(test_results, test_times) ==
    IF time_not_tracked(test_results)
    THEN test_times
    ELSE LET name == tagged_name(test_results)
             start_time == fromisoformat(split(test_results["start_time"])[1])
             end_time == fromisoformat(split(test_results["end_time"])[1])
             duration == end_time - start_time
             matrix_id == test_results["matrix_id"]
             max0 == IF In(name, test_times.max)
                     THEN test_times.max ELSE Put(test_times.max, name, duration)
             slow0 == IF In(name, test_times.slowest_branch)
                      THEN test_times.slowest_branch
                      ELSE Put(test_times.slowest_branch, name, matrix_id)
             longer == duration > Get(max0, name)
         IN  [max            |-> IF longer THEN Put(max0, name, duration) ELSE max0,
              slowest_branch |-> IF longer THEN Put(slow0, name, matrix_id) ELSE slow0,
              min            |-> Put(test_times.min, name, duration)]

\* track_test_times with a duration equal to the largest taken as larger
track_test_times_ties_update(test_results, test_times) ==
    IF time_not_tracked(test_results)
    THEN test_times
    ELSE LET name == tagged_name(test_results)
             start_time == fromisoformat(split(test_results["start_time"])[1])
             end_time == fromisoformat(split(test_results["end_time"])[1])
             duration == end_time - start_time
             matrix_id == test_results["matrix_id"]
             max0 == IF In(name, test_times.max)
                     THEN test_times.max ELSE Put(test_times.max, name, duration)
             min0 == IF In(name, test_times.min)
                     THEN test_times.min ELSE Put(test_times.min, name, duration)
             slow0 == IF In(name, test_times.slowest_branch)
                      THEN test_times.slowest_branch
                      ELSE Put(test_times.slowest_branch, name, matrix_id)
             longer == duration >= Get(max0, name)
         IN  [max            |-> IF longer THEN Put(max0, name, duration) ELSE max0,
              slowest_branch |-> IF longer THEN Put(slow0, name, matrix_id) ELSE slow0,
              min            |-> IF duration < Get(min0, name)
                                 THEN Put(min0, name, duration) ELSE min0]

track_test_times(test_results, test_times) ==
    IF time_not_tracked(test_results)
    THEN test_times
    ELSE LET name == tagged_name(test_results)
             start_time == fromisoformat(split(test_results["start_time"])[1])
             end_time == fromisoformat(split(test_results["end_time"])[1])
             duration == end_time - start_time
             matrix_id == test_results["matrix_id"]
             max0 == IF In(name, test_times.max)
                     THEN test_times.max ELSE Put(test_times.max, name, duration)
             min0 == IF In(name, test_times.min)
                     THEN test_times.min ELSE Put(test_times.min, name, duration)
             slow0 == IF In(name, test_times.slowest_branch)
                      THEN test_times.slowest_branch
                      ELSE Put(test_times.slowest_branch, name, matrix_id)
             longer == duration > Get(max0, name)
         IN  [max            |-> IF longer THEN Put(max0, name, duration) ELSE max0,
              slowest_branch |-> IF longer THEN Put(slow0, name, matrix_id) ELSE slow0,
              min            |-> IF duration < Get(min0, name)
                                 THEN Put(min0, name, duration) ELSE min0]

\* TrackSuiteTime without the two comparisons: the first time stored stays
TrackSuiteTimeFirst(times, platform, matrix_id, t, earlier) ==
    LET branches == IF In(platform, times) THEN Get(times, platform) ELSE EmptyDict
        stored == IF In(matrix_id, branches) THEN Get(branches, matrix_id) ELSE t
    IN  Put(times, platform, Put(branches, matrix_id, stored))

\* times[platform][matrix_id], both levels created when missing, replaced by
\* t when better(t, the stored time)
TrackSuiteTime(times, platform, matrix_id, t, earlier) ==
    LET branches == IF In(platform, times) THEN Get(times, platform) ELSE EmptyDict
        stored == IF In(matrix_id, branches) THEN Get(branches, matrix_id) ELSE t
        better == IF earlier THEN t < stored ELSE stored < t
    IN  Put(times, platform, Put(branches, matrix_id, IF better THEN t ELSE stored))

track_suite_times(test_results, suite_times) ==
    IF time_not_tracked(test_results)
    THEN suite_times
    ELSE LET start_time == fromisoformat(split(test_results["start_time"])[1])
             end_time == fromisoformat(split(test_results["end_time"])[1])
             matrix_id == test_results["matrix_id"]
             platform == test_results["platform"]
         IN  [start_time |-> TrackSuiteTime(suite_times.start_time, platform,
                                            matrix_id, start_time, TRUE),
              end_time   |-> TrackSuiteTime(suite_times.end_time, platform,
                                            matrix_id, end_time, FALSE)]

-----------------------------------------------------------------------------
(* The result of compute_test_summary *)

EmptyByTest ==
    [total |-> EmptyDict, failed |-> EmptyDict, k8s_versions_failed |-> EmptyDict,
     pg_versions_failed |-> EmptyDict, platforms_failed |-> EmptyDict]

EmptyByCode == [total |-> EmptyDict, tests |-> EmptyDict, errors |-> EmptyDict]

EmptyBuckets == [total |-> EmptyDict, failed |-> EmptyDict]

EmptyBySpecial ==
    [total |-> EmptyDict, tests_failed |-> EmptyDict,
     k8s_versions_failed |-> EmptyDict, pg_versions_failed |-> EmptyDict,
     platforms_failed |-> EmptyDict]

EmptyTestDurations == [max |-> EmptyDict, min |-> EmptyDict, slowest_branch |-> EmptyDict]

EmptySuiteDurations == [start_time |-> EmptyDict, end_time |-> EmptyDict]

\* the dictionary compute_test_summary returns
summary ==
    [total_run           |-> total_runs,
     total_failed        |-> total_fails,
     total_special_fails |-> total_special_fails,
     by_test             |-> by_test,
     by_code             |-> by_failing_code,
     by_special_failures |-> by_special_failures,
     by_matrix           |-> by_matrix,
     by_k8s              |-> by_k8s,
     by_platform         |-> by_platform,
     by_postgres         |-> by_postgres,
     test_durations      |-> test_durations,
     suite_durations     |-> suite_durations]

\* the dictionary compute_test_summary returns for a directory whose valid
\* artifacts are records, listed in this order
compute_test_summary(records) ==
    LET RECURSIVE loop(_)
        loop(n) ==
            IF n = 0
            THEN [total_run           |-> 0,
                  total_failed        |-> 0,
                  total_special_fails |-> 0,
                  by_test             |-> EmptyByTest,
                  by_code             |-> EmptyByCode,
                  by_special_failures |-> EmptyBySpecial,
                  by_matrix           |-> EmptyBuckets,
                  by_k8s              |-> EmptyBuckets,
                  by_platform         |-> EmptyBuckets,
                  by_postgres         |-> EmptyBuckets,
                  test_durations      |-> EmptyTestDurations,
                  suite_durations     |-> EmptySuiteDurations]
            ELSE LET s == loop(n - 1)
                     test_results == combine_postgres_data(records[n])
                 IN  [total_run           |-> 1 + s.total_run,
                      total_failed        |-> IF is_failed(test_results)
                                              THEN 1 + s.total_failed
                                              ELSE s.total_failed,
                      total_special_fails |-> IF ~is_normal_failure(test_results)
                                              THEN 1 + s.total_special_fails
                                              ELSE s.total_special_fails,
                      by_test             |-> count_bucketed_by_test(test_results, s.by_test),
                      by_code             |-> count_bucketed_by_code(test_results, s.by_code),
                      by_special_failures |->
                          count_bucketed_by_special_failures(test_results,
                                                             s.by_special_failures),
                      by_matrix           |->
                          count_bucketized_stats(test_results, s.by_matrix, "matrix_id"),
                      by_k8s              |->
                          count_bucketized_stats(test_results, s.by_k8s, "k8s_version"),
                      by_platform         |->
                          count_bucketized_stats(test_results, s.by_platform, "platform"),
                      by_postgres         |->
                          count_bucketized_stats(test_results, s.by_postgres, "pg_version"),
                      test_durations      |-> track_test_times(test_results, s.test_durations),
                      suite_durations     |->
                          track_suite_times(test_results, s.suite_durations)]
    IN  loop(Len(records))

-----------------------------------------------------------------------------
(* Inputs: the files a directory listing is drawn from *)

Stamp(text) == <<text, ".", "000000000Z">>

T1837 == Stamp("2021-11-29T18:28:37")
T1907 == Stamp("2021-11-29T18:29:07")
T3000 == Stamp("2021-11-29T18:30:00")
T3107 == Stamp("2021-11-29T18:31:07")
NextDay == Stamp("2021-11-30T18:31:07")
NoFraction == <<"2021-11-29T18:28:37Z">>
TwoDots == <<"2021-11-29T18:28:37", ".", "000", ".", "000Z">>
NotIso == <<"29/11/2021 18:28:37", ".", "000Z">>

\* <<platform, matrix_id, k8s_version, postgres_kind, postgres_version>>
LocalId1 == <<"local", "id1", "1.22", "PostgreSQL", "11.1">>
LocalId2 == <<"local", "id2", "1.23", "PostgreSQL", "11.1">>
GkeId3 == <<"gke", "id3", "1.23", "PostgreSQL", "12.0">>

\* <<error, error_file, error_line>>
NoError == <<"", "", "">>
Boom == <<"boom", "initdb_test.go", "80">>
Bang == <<"bang|bang", "initdb_test.go", "80">>
BoomFileColon == <<"boom", "initdb_test.go:80", "1">>
BangLineColon == <<"bang|bang", "initdb_test.go", "80:1">>
Restarted == <<"operator was restarted", "operator.go", "12">>
Renamed == <<"operator was renamed", "", "">>
NoReport == <<"cannot open report", "", "">>
Unlocated == <<"", "initdb_test.go", "80">>

Artifact(name, state, times, err, dims) ==
    [suffix |-> ".json", kind |-> "object", items |-> <<>>,
     obj |-> [name |-> name, state |-> state,
              start_time |-> times[1], end_time |-> times[2],
              error |-> err[1], error_file |-> err[2], error_line |-> err[3],
              platform |-> dims[1], matrix_id |-> dims[2], k8s_version |-> dims[3],
              postgres_kind |-> dims[4], postgres_version |-> dims[5],
              workflow_id |-> "12", repo |-> "my-repo", branch |-> "my-branch"]]

\* the same document without one of its members
Without(file, field) ==
    [file EXCEPT !.obj = [f \in DOMAIN file.obj \ {field} |-> file.obj[f]]]

PassedT1 == Artifact("t1", "passed", <<T1837, T1907>>, NoError, LocalId1)
FailedT1 == Artifact("t1", "failed", <<T1837, T1907>>, Boom, LocalId1)
FailedT2 == Artifact("t2", "failed", <<T1907, T3107>>, Bang, LocalId1)
PassedT2Gke == Artifact("t2", "passed", <<T1837, T3000>>, NoError, GkeId3)

Readme == [suffix |-> ".md", kind |-> "malformed", items |-> <<>>, obj |-> <<>>]
Truncated == [suffix |-> ".json", kind |-> "malformed", items |-> <<>>, obj |-> <<>>]
Number == [suffix |-> ".json", kind |-> "scalar", items |-> <<>>, obj |-> <<>>]
ShortList == [suffix |-> ".json", kind |-> "array", items |-> <<"name", "state">>, obj |-> <<>>]
FieldList == [suffix |-> ".json", kind |-> "array", items |-> should_have, obj |-> <<>>]

\* classification and counting
PoolStates ==
    {PassedT1, FailedT1,
     Artifact("t2", "interrupted", <<T1837, T3000>>, NoError, GkeId3),
     Artifact("t2", "skipped", <<NullTime, NullTime>>, NoError, GkeId3),
     Artifact("t1", "ignoreFailed", <<T1837, T1907>>, Boom, LocalId2),
     Artifact("t1", "passed", <<T1837, T1907>>, Restarted, LocalId1)}

\* what a directory may hold besides artifacts
PoolInputs ==
    {FailedT1, Readme, Truncated, Number, ShortList, FieldList,
     Without(PassedT1, "branch")}

\* systematic failures
PoolAlerts ==
    {FailedT1, FailedT2, PassedT1, PassedT2Gke,
     Artifact("Open Ginkgo report", "failed", <<T1837, T1907>>, NoReport, LocalId2)}

\* failing code locations
PoolCode ==
    {FailedT1, FailedT2,
     Artifact("t1", "failed", <<T1837, T1907>>, BoomFileColon, LocalId1),
     Artifact("t2", "failed", <<T1837, T1907>>, BangLineColon, LocalId1),
     Artifact("t1", "failed", <<T1837, T1907>>, Unlocated, LocalId1),
     Artifact("t1", "failed", <<T1837, T1907>>, Restarted, LocalId1)}

\* timestamps that are not tracked
PoolTimes ==
    {PassedT1, FailedT2,
     Artifact("t1", "passed", <<NullTime, T3107>>, NoError, LocalId1),
     Artifact("t1", "passed", <<T1837, NoFraction>>, NoError, LocalId2),
     Artifact("t3", "passed", <<TwoDots, T3107>>, NoError, GkeId3),
     Artifact("t1", "passed", <<T1837, NotIso>>, NoError, LocalId1)}

\* spans of matrix branches
PoolSpans ==
    {PassedT1, FailedT2,
     Artifact("t1", "passed", <<T3000, T3107>>, NoError, LocalId2),
     Artifact("t1", "passed", <<T1837, NextDay>>, NoError, GkeId3),
     Artifact("t2", "interrupted", <<T3107, T1837>>, Renamed, LocalId2)}

Pools == {PoolStates, PoolInputs, PoolAlerts, PoolCode, PoolTimes, PoolSpans}

\* the listings of at most MaxFiles files of one pool
Listings ==
    UNION {UNION {[1..n -> pool] : n \in 0..MaxFiles} : pool \in Pools}

\* <<args, env>>: the command line and the environment of a run
Configs ==
    {<<[out |-> TRUE, limit |-> 0],
       [GITHUB_STEP_SUMMARY |-> TRUE, GITHUB_OUTPUT |-> TRUE]>>,
     <<[out |-> FALSE, limit |-> 0],
       [GITHUB_STEP_SUMMARY |-> TRUE, GITHUB_OUTPUT |-> TRUE]>>,
     <<[out |-> FALSE, limit |-> 20],
       [GITHUB_STEP_SUMMARY |-> TRUE, GITHUB_OUTPUT |-> TRUE]>>,
     <<[out |-> FALSE, limit |-> 0],
       [GITHUB_STEP_SUMMARY |-> FALSE, GITHUB_OUTPUT |-> FALSE]>>,
     <<[out |-> FALSE, limit |-> 20],
       [GITHUB_STEP_SUMMARY |-> TRUE, GITHUB_OUTPUT |-> FALSE]>>}

-----------------------------------------------------------------------------
(* Overview compiler *)

\* <<number of failed buckets, number of buckets>>
compute_bucketized_summary(parameter_buckets) ==
    <<Len(parameter_buckets.failed), Len(parameter_buckets.total)>>

compile_overview(s) ==
    [total_run |-> s.total_run,
     total_failed |-> s.total_failed,
     total_special_fails |-> s.total_special_fails,
     unique_run |-> compute_bucketized_summary(s.by_test)[2],
     unique_failed |-> compute_bucketized_summary(s.by_test)[1],
     k8s_run |-> compute_bucketized_summary(s.by_k8s)[2],
     k8s_failed |-> compute_bucketized_summary(s.by_k8s)[1],
     postgres_run |-> compute_bucketized_summary(s.by_postgres)[2],
     postgres_failed |-> compute_bucketized_summary(s.by_postgres)[1],
     matrix_failed |-> compute_bucketized_summary(s.by_matrix)[1],
     matrix_run |-> compute_bucketized_summary(s.by_matrix)[2],
     platform_failed |-> compute_bucketized_summary(s.by_platform)[1],
     platform_run |-> compute_bucketized_summary(s.by_platform)[2]]

-----------------------------------------------------------------------------
(* Report renderer.  What print() writes is a sequence of items, each a    *)
(* record with a kind; a table is one item holding its rows.               *)

Flatten(seqs) ==
    LET RECURSIVE cat(_)
        cat(i) == IF i > Len(seqs) THEN <<>> ELSE seqs[i] \o cat(i + 1)
    IN  cat(1)

\* the alert threshold: every run of the bucket failed, and more than one
\* is_systematic without the more-than-one test
is_systematic_single(failures, runs) == failures = runs

\* the alert threshold: every run of the bucket failed, and more than one
is_systematic(failures, runs) == failures = runs /\ failures > 1

metric_name ==
    [by_test |-> "Tests", by_k8s |-> "Kubernetes versions",
     by_postgres |-> "Postgres versions", by_platform |-> "Platforms"]

alert_metrics == <<"by_test", "by_k8s", "by_postgres", "by_platform">>

\* the lines format_alerts adds to output for one metric
metric_alerts(s, metric) ==
    LET failed == s[metric].failed
        total == s[metric].total
        hit(bucket) == is_systematic(Get(failed, bucket), Get(total, bucket))
        buckets == SelectSeq(Keys(failed), hit)
    IN  IF buckets = <<>>
        THEN <<>>
        ELSE <<[kind |-> "systematic_heading", metric |-> metric_name[metric]]>>
             \o [i \in 1..Len(buckets) |->
                    [kind |-> "systematic", metric |-> metric_name[metric],
                     bucket |-> buckets[i],
                     failures |-> Get(failed, buckets[i]),
                     runs |-> Get(total, buckets[i])]]

\* format_alerts without its first branch
all_failed_never(s) == FALSE

\* the branch format_alerts takes first
all_failed(s) == s.total_run = s.total_failed

format_alerts(s, embed) ==
    LET open == IF embed THEN <<[kind |-> "## Alerts"]>> ELSE <<[kind |-> "alerts<<EOF"]>>
        close == IF embed THEN <<>> ELSE <<[kind |-> "EOF"]>>
        output == Flatten([i \in 1..Len(alert_metrics) |-> metric_alerts(s, alert_metrics[i])])
    IN  IF all_failed(s)
        THEN open \o <<[kind |-> "All test combinations failed"]>> \o close
        ELSE IF output = <<>>
        THEN <<>>
        ELSE open \o output \o close

format_overview(overview) ==
    <<[kind |-> "Overview",
       rows |-> <<<<overview.total_failed, overview.total_run, "test combinations">>,
                  <<overview.unique_failed, overview.unique_run, "unique tests">>,
                  <<overview.matrix_failed, overview.matrix_run, "matrix branches">>,
                  <<overview.k8s_failed, overview.k8s_run, "k8s versions">>,
                  <<overview.postgres_failed, overview.postgres_run, "postgres versions">>,
                  <<overview.platform_failed, overview.platform_run, "platforms">>>>]>>

\* list(dict(sorted(d.items(), key=lambda item: item[1], reverse=True))):
\* the keys by decreasing value, equal values in insertion order
sorted_desc(d) ==
    LET RECURSIVE insert(_, _)
        insert(sorted, item) ==
            IF sorted = <<>>
            THEN <<item>>
            ELSE IF Head(sorted)[2] < item[2]
            THEN <<item>> \o sorted
            ELSE <<Head(sorted)>> \o insert(Tail(sorted), item)
        RECURSIVE sort(_)
        sort(n) == IF n = 0 THEN <<>> ELSE insert(sort(n - 1), d[n])
    IN  Keys(sort(Len(d)))

format_bucket_table(buckets, anchor) ==
    LET order == sorted_desc(buckets.failed)
    IN  <<[kind |-> anchor,
           rows |-> [i \in 1..Len(order) |->
                        <<Get(buckets.failed, order[i]),
                          Get(buckets.total, order[i]), order[i]>>]]>>

format_by_test(s) ==
    LET order == sorted_desc(s.by_test.failed)
    IN  <<[kind |-> "by_test",
           rows |-> [i \in 1..Len(order) |->
                        <<Get(s.by_test.failed, order[i]),
                          Get(s.by_test.total, order[i]),
                          Keys(Get(s.by_test.k8s_versions_failed, order[i])),
                          Keys(Get(s.by_test.pg_versions_failed, order[i])),
                          Keys(Get(s.by_test.platforms_failed, order[i])),
                          order[i]>>]]>>

format_by_special_failure(s) ==
    LET bs == s.by_special_failures
        order == sorted_desc(bs.total)
    IN  <<[kind |-> "by_special_failure",
           rows |-> [i \in 1..Len(order) |->
                        <<Get(bs.total, order[i]), order[i],
                          Keys(Get(bs.tests_failed, order[i])),
                          Keys(Get(bs.k8s_versions_failed, order[i])),
                          Keys(Get(bs.pg_versions_failed, order[i])),
                          Keys(Get(bs.platforms_failed, order[i]))>>]]>>

\* .replace("\n", "<br />").replace("|", em dash) on the error texts of the
\* inputs, the em dash written &mdash;
escape_cell(error) == IF error = "bang|bang" THEN "bang&mdash;bang" ELSE error

format_by_code(s) ==
    LET order == sorted_desc(s.by_code.total)
    IN  <<[kind |-> "by_code",
           rows |-> [i \in 1..Len(order) |->
                        <<Get(s.by_code.total, order[i]), order[i],
                          Keys(Get(s.by_code.tests, order[i])),
                          escape_cell(Get(s.by_code.errors, order[i]))>>]]>>

\* "{minutes} min {seconds} sec" of timedelta.seconds, which leaves the days out
format_duration(duration) ==
    LET seconds == duration % 86400
    IN  [min |-> seconds \div 60, sec |-> seconds % 60]

format_durations_table(test_times) ==
    LET order == sorted_desc(test_times.max)
    IN  <<[kind |-> "timing",
           rows |-> [i \in 1..Len(order) |->
                        <<format_duration(Get(test_times.max, order[i])),
                          format_duration(Get(test_times.min, order[i])),
                          Get(test_times.slowest_branch, order[i]), order[i]>>]]>>

\* the per-platform reduction of the spans of the matrix branches
platform_spans(suite_times) ==
    LET RECURSIVE reduce(_, _, _, _)
        reduce(acc, platform, branches, n) ==
            IF n > Len(branches)
            THEN acc
            ELSE LET matrix_id == branches[n][1]
                     duration ==
                         Get(Get(suite_times.end_time, platform), matrix_id)
                         - Get(Get(suite_times.start_time, platform), matrix_id)
                     max0 == IF In(platform, acc.max)
                             THEN acc.max ELSE Put(acc.max, platform, duration)
                     min0 == IF In(platform, acc.min)
                             THEN acc.min ELSE Put(acc.min, platform, duration)
                     slow0 == IF In(platform, acc.slowest_branch)
                              THEN acc.slowest_branch
                              ELSE Put(acc.slowest_branch, platform, matrix_id)
                     longer == Get(max0, platform) < duration
                 IN  reduce([max |-> IF longer THEN Put(max0, platform, duration) ELSE max0,
                             slowest_branch |->
                                 IF longer THEN Put(slow0, platform, matrix_id) ELSE slow0,
                             min |-> IF duration < Get(min0, platform)
                                     THEN Put(min0, platform, duration) ELSE min0],
                            platform, branches, n + 1)
        RECURSIVE platforms(_, _)
        platforms(acc, p) ==
            IF p > Len(suite_times.start_time)
            THEN acc
            ELSE platforms(reduce(acc, suite_times.start_time[p][1],
                                  suite_times.start_time[p][2], 1), p + 1)
    IN  platforms(EmptyTestDurations, 1)

format_suite_durations_table(suite_times) ==
    LET spans == platform_spans(suite_times)
        order == sorted_desc(spans.max)
    IN  <<[kind |-> "suite_timing",
           rows |-> [i \in 1..Len(order) |->
                        <<format_duration(Get(spans.max, order[i])),
                          format_duration(Get(spans.min, order[i])),
                          Get(spans.slowest_branch, order[i]), order[i]>>]]>>

format_test_failures(s) ==
    (IF s.total_special_fails > 0 THEN format_by_special_failure(s) ELSE <<>>)
    \o format_by_test(s)
    \o format_by_code(s)
    \o format_bucket_table(s.by_matrix, "by_matrix")
    \o format_bucket_table(s.by_k8s, "by_k8s")
    \o format_bucket_table(s.by_postgres, "by_postgres")
    \o format_bucket_table(s.by_platform, "by_platform")

\* format_test_summary with the index line printed whatever total_failed is
format_test_summary_always_index(s) ==
    <<[kind |-> "Note"]>>
    \o <<[kind |-> "Index"]>>
    \o format_alerts(s, TRUE)
    \o format_overview(compile_overview(s))
    \o (IF s.total_failed = 0
        THEN <<[kind |-> "No failures"]>>
        ELSE format_test_failures(s))
    \o format_suite_durations_table(s.suite_durations)
    \o format_durations_table(s.test_durations)

format_test_summary(s) ==
    <<[kind |-> "Note"]>>
    \o (IF s.total_failed # 0 THEN <<[kind |-> "Index"]>> ELSE <<>>)
    \o format_alerts(s, TRUE)
    \o format_overview(compile_overview(s))
    \o (IF s.total_failed = 0
        THEN <<[kind |-> "No failures"]>>
        ELSE format_test_failures(s))
    \o format_suite_durations_table(s.suite_durations)
    \o format_durations_table(s.test_durations)

format_short_test_summary(s) ==
    <<[kind |-> "Abridged"]>>
    \o format_alerts(s, TRUE)
    \o format_overview(compile_overview(s))

\* os.stat(path).st_size, in units of one printed line or table row
st_size(file) ==
    LET RECURSIVE size(_)
        size(i) == IF i > Len(file)
                   THEN 0
                   ELSE (IF "rows" \in DOMAIN file[i] THEN 2 + Len(file[i].rows) ELSE 1)
                        + size(i + 1)
    IN  size(1)

-----------------------------------------------------------------------------
(* The run *)

Init ==
    /\ \E config \in Configs : args = config[1] /\ env = config[2]
    /\ dir_listing \in Listings
    /\ idx = 1
    /\ pc = "compute"
    /\ total_runs = 0
    /\ total_fails = 0
    /\ total_special_fails = 0
    /\ by_test = EmptyByTest
    /\ by_failing_code = EmptyByCode
    /\ by_special_failures = EmptyBySpecial
    /\ by_matrix = EmptyBuckets
    /\ by_k8s = EmptyBuckets
    /\ by_postgres = EmptyBuckets
    /\ by_platform = EmptyBuckets
    /\ test_durations = EmptyTestDurations
    /\ suite_durations = EmptySuiteDurations
    /\ out_file = <<>>
    /\ step_summary = <<>>
    /\ full_summary_md = <<>>
    /\ github_output = <<>>
    /\ stdout = <<>>

\* the loop of compute_test_summary stands at a file
AtFile == pc = "compute" /\ idx <= Len(dir_listing)

file == dir_listing[idx]

\* an uncaught exception ends the run; the locals of compute_test_summary
\* are lost with it
Raise ==
    /\ pc' = "aborted"
    /\ UNCHANGED <<args, env, dir_listing, idx, summary_vars, output_vars>>

Continue ==
    /\ idx' = idx + 1
    /\ UNCHANGED <<args, env, dir_listing, pc, summary_vars, output_vars>>

SkipOtherSuffix ==
    /\ AtFile
    /\ file.suffix # ".json"
    /\ Continue

\* JsonLoadError with the exception caught and the file skipped
JsonLoadSkipped ==
    /\ AtFile
    /\ file.suffix = ".json"
    /\ json_load_raises(file)
    /\ Continue

JsonLoadError ==
    /\ AtFile
    /\ file.suffix = ".json"
    /\ json_load_raises(file)
    /\ Raise

ValidationTypeError ==
    /\ AtFile
    /\ file.suffix = ".json"
    /\ ~json_load_raises(file)
    /\ membership_raises(file)
    /\ Raise

\* the file holds a JSON document is_test_artifact decides on
Validated ==
    /\ AtFile
    /\ file.suffix = ".json"
    /\ ~json_load_raises(file)
    /\ ~membership_raises(file)

SkipNonArtifact ==
    /\ Validated
    /\ ~is_test_artifact(file)
    /\ Continue

NormalisationTypeError ==
    /\ Validated
    /\ is_test_artifact(file)
    /\ subscript_raises(file)
    /\ Raise

DurationValueError ==
    /\ Validated
    /\ is_test_artifact(file)
    /\ ~subscript_raises(file)
    /\ track_time_raises(combine_postgres_data(file.obj))
    /\ Raise

FoldArtifact ==
    /\ Validated
    /\ is_test_artifact(file)
    /\ ~subscript_raises(file)
    /\ LET test_results == combine_postgres_data(file.obj)
       IN  /\ ~track_time_raises(test_results)
           /\ total_runs' = 1 + total_runs
           /\ total_fails' = IF is_failed(test_results)
                             THEN 1 + total_fails ELSE total_fails
           /\ total_special_fails' = IF ~is_normal_failure(test_results)
                                     THEN 1 + total_special_fails
                                     ELSE total_special_fails
           /\ by_test' = count_bucketed_by_test(test_results, by_test)
           /\ by_failing_code' = count_bucketed_by_code(test_results, by_failing_code)
           /\ by_special_failures' =
                  count_bucketed_by_special_failures(test_results, by_special_failures)
           /\ by_matrix' = count_bucketized_stats(test_results, by_matrix, "matrix_id")
           /\ by_k8s' = count_bucketized_stats(test_results, by_k8s, "k8s_version")
           /\ by_postgres' = count_bucketized_stats(test_results, by_postgres, "pg_version")
           /\ by_platform' = count_bucketized_stats(test_results, by_platform, "platform")
           /\ test_durations' = track_test_times(test_results, test_durations)
           /\ suite_durations' = track_suite_times(test_results, suite_durations)
    /\ idx' = idx + 1
    /\ UNCHANGED <<args, env, dir_listing, pc, output_vars>>

ReturnSummary ==
    /\ pc = "compute"
    /\ idx > Len(dir_listing)
    /\ pc' = "report"
    /\ UNCHANGED <<args, env, dir_listing, idx, summary_vars, output_vars>>

WriteOutFile ==
    /\ pc = "report"
    /\ args.out
    /\ out_file' = format_test_summary(summary)
    /\ pc' = "alerts"
    /\ UNCHANGED <<args, env, dir_listing, idx, summary_vars,
                   step_summary, full_summary_md, github_output, stdout>>

WriteStepSummary ==
    /\ pc = "report"
    /\ ~args.out
    /\ env.GITHUB_STEP_SUMMARY
    /\ stdout' = Append(stdout, [kind |-> "with GITHUB_STEP_SUMMARY"])
    /\ step_summary' = step_summary \o format_test_summary(summary)
    /\ pc' = "limit"
    /\ UNCHANGED <<args, env, dir_listing, idx, summary_vars,
                   out_file, full_summary_md, github_output>>

NoLimit ==
    /\ pc = "limit"
    /\ args.limit = 0
    /\ pc' = "alerts"
    /\ UNCHANGED <<args, env, dir_listing, idx, summary_vars, output_vars>>

WithinLimit ==
    /\ pc = "limit"
    /\ args.limit # 0
    /\ ~(st_size(step_summary) > args.limit)
    /\ stdout' = Append(stdout, [kind |-> "with GITHUB_STEP_SUMMARY limit"])
    /\ pc' = "alerts"
    /\ UNCHANGED <<args, env, dir_listing, idx, summary_vars,
                   out_file, step_summary, full_summary_md, github_output>>

\* the step summary is over the limit and GITHUB_OUTPUT is not set:
\* open(None, "a") raises TypeError once the short report is written
OverflowTypeError ==
    /\ pc = "limit"
    /\ args.limit # 0
    /\ st_size(step_summary) > args.limit
    /\ ~env.GITHUB_OUTPUT
    /\ stdout' = Append(stdout, [kind |-> "with GITHUB_STEP_SUMMARY limit"])
    /\ step_summary' = format_short_test_summary(summary)
    /\ pc' = "aborted"
    /\ UNCHANGED <<args, env, dir_listing, idx, summary_vars,
                   out_file, full_summary_md, github_output>>

Overflow ==
    /\ pc = "limit"
    /\ args.limit # 0
    /\ st_size(step_summary) > args.limit
    /\ env.GITHUB_OUTPUT
    /\ stdout' = Append(stdout, [kind |-> "with GITHUB_STEP_SUMMARY limit"])
    /\ step_summary' = format_short_test_summary(summary)
    /\ github_output' = Append(github_output, [kind |-> "Overflow=full-summary.md"])
    /\ full_summary_md' = format_test_summary(summary)
    /\ pc' = "alerts"
    /\ UNCHANGED <<args, env, dir_listing, idx, summary_vars, out_file>>

WriteStdout ==
    /\ pc = "report"
    /\ ~args.out
    /\ ~env.GITHUB_STEP_SUMMARY
    /\ stdout' = stdout \o format_test_summary(summary)
    /\ pc' = "alerts"
    /\ UNCHANGED <<args, env, dir_listing, idx, summary_vars,
                   out_file, step_summary, full_summary_md, github_output>>

WriteAlerts ==
    /\ pc = "alerts"
    /\ env.GITHUB_OUTPUT
    /\ stdout' = Append(stdout, [kind |-> "with GITHUB_OUTPUT"])
    /\ github_output' = github_output \o format_alerts(summary, FALSE)
    /\ pc' = "done"
    /\ UNCHANGED <<args, env, dir_listing, idx, summary_vars,
                   out_file, step_summary, full_summary_md>>

NoOutputParameters ==
    /\ pc = "alerts"
    /\ ~env.GITHUB_OUTPUT
    /\ pc' = "done"
    /\ UNCHANGED <<args, env, dir_listing, idx, summary_vars, output_vars>>

Next ==
    \/ SkipOtherSuffix
    \/ JsonLoadError
    \/ ValidationTypeError
    \/ SkipNonArtifact
    \/ NormalisationTypeError
    \/ DurationValueError
    \/ FoldArtifact
    \/ ReturnSummary
    \/ WriteOutFile
    \/ WriteStepSummary
    \/ NoLimit
    \/ WithinLimit
    \/ Overflow
    \/ OverflowTypeError
    \/ WriteStdout
    \/ WriteAlerts
    \/ NoOutputParameters

Spec == Init /\ [][Next]_vars

-----------------------------------------------------------------------------
(* What the properties below are stated in: the records folded so far, read *)
(* off the directory listing, and what has been printed                     *)

RequiredFields ==
    {"name", "state", "start_time", "end_time", "error", "error_file",
     "error_line", "platform", "postgres_kind", "matrix_id", "postgres_version",
     "k8s_version", "workflow_id", "repo", "branch"}

\* a .json file holding a JSON object with all the required fields
ValidArtifact(f) ==
    f.suffix = ".json" /\ f.kind = "object" /\ RequiredFields \subseteq DOMAIN f.obj

\* the positions of the listing whose records have been folded
FoldedAt == {i \in 1..(idx - 1) : ValidArtifact(dir_listing[i])}

RecordAt(i) == dir_listing[i].obj

StateFailed(r) == r.state \notin {"passed", "skipped", "ignoreFailed"}

PgVersionOf(r) == r.postgres_kind \o "-" \o r.postgres_version

\* d[k], 0 for a missing key
CountIn(d, k) == IF In(k, d) THEN Get(d, k) ELSE 0

NoDuplicateKeys(d) == Cardinality(KeySet(d)) = Len(d)

\* a .json file holding a JSON document that is not a valid artifact
LacksField(f) == f.suffix = ".json" /\ f.kind # "malformed" /\ ~ValidArtifact(f)

HasMalformedJson ==
    \E i \in 1..Len(dir_listing) :
        dir_listing[i].suffix = ".json" /\ dir_listing[i].kind = "malformed"

NothingWritten ==
    /\ out_file = <<>>
    /\ step_summary = <<>>
    /\ full_summary_md = <<>>
    /\ github_output = <<>>
    /\ stdout = <<>>

\* C1: after any number of folds, in any order, total_run is the number of
\* valid artifacts folded and total_failed the number of them whose state is
\* none of passed, skipped, ignoreFailed.
C1_TotalsCountRecords ==
    /\ total_runs = Cardinality(FoldedAt)
    /\ total_fails = Cardinality({i \in FoldedAt : StateFailed(RecordAt(i))})

C1_Witness ==
    /\ pc = "report"
    /\ total_runs = 3
    /\ total_fails = 1
    /\ \E i \in FoldedAt : RecordAt(i).state = "ignoreFailed"

\* C2: a .json file holding valid JSON that lacks a required field is skipped:
\* the loop moves on to the next file, the run does not abort and no part of
\* the summary changes.
C2_LackingFieldIsSkipped ==
    [][(AtFile /\ LacksField(file))
        => (pc' = "compute" /\ idx' = idx + 1 /\ UNCHANGED summary_vars)]_vars

\* C3: when a .json file of the directory is not parseable JSON the run never
\* gets to report, and nothing is written to any output.
C3_MalformedJsonNoReport ==
    HasMalformedJson => (pc \in {"compute", "aborted"} /\ NothingWritten)

C3_Witness ==
    /\ pc = "aborted"
    /\ idx = 3
    /\ dir_listing[idx].kind = "malformed"
    /\ dir_listing[idx].suffix = ".json"
    /\ total_runs = 2

\* the field a dimension buckets by
DimensionValue(r, dim) ==
    CASE dim = "matrix_id" -> r.matrix_id
      [] dim = "k8s_version" -> r.k8s_version
      [] dim = "pg_version" -> PgVersionOf(r)
      [] dim = "platform" -> r.platform

DimensionCounts(buckets, dim) ==
    /\ NoDuplicateKeys(buckets.total)
    /\ NoDuplicateKeys(buckets.failed)
    /\ KeySet(buckets.total) = {DimensionValue(RecordAt(i), dim) : i \in FoldedAt}
    /\ KeySet(buckets.failed) =
           {DimensionValue(RecordAt(i), dim) :
                i \in {j \in FoldedAt : StateFailed(RecordAt(j))}}
    /\ \A v \in KeySet(buckets.total) :
           /\ Get(buckets.total, v) =
                  Cardinality({i \in FoldedAt : DimensionValue(RecordAt(i), dim) = v})
           /\ CountIn(buckets.failed, v) =
                  Cardinality({i \in FoldedAt :
                                  /\ DimensionValue(RecordAt(i), dim) = v
                                  /\ StateFailed(RecordAt(i))})

\* C4: in each of the four dimensions total[v] is the number of folded records
\* with value v and failed[v] the number of those whose state is a failure of
\* any kind; a value without a failed record has no key in failed.
C4_DimensionBuckets ==
    /\ DimensionCounts(by_matrix, "matrix_id")
    /\ DimensionCounts(by_k8s, "k8s_version")
    /\ DimensionCounts(by_postgres, "pg_version")
    /\ DimensionCounts(by_platform, "platform")

C4_Witness ==
    /\ pc = "report"
    /\ CountIn(by_platform.total, "local") = 3
    /\ CountIn(by_platform.failed, "local") = 2
    /\ In("1.22", by_k8s.total) /\ ~In("1.22", by_k8s.failed)
    /\ In("Open Ginkgo report", by_test.total)
    /\ ~In("Open Ginkgo report", by_test.failed)

\* the files format_alerts has printed to when the run is done: 1 the --out
\* file, 2 the step summary, 3 full-summary.md, 4 the output parameters,
\* 5 standard output
AlertTargets ==
    {k \in 1..5 :
        \/ k = 1 /\ args.out
        \/ k = 2 /\ ~args.out /\ env.GITHUB_STEP_SUMMARY
        \/ k = 3 /\ full_summary_md # <<>>
        \/ k = 4 /\ env.GITHUB_OUTPUT
        \/ k = 5 /\ ~args.out /\ ~env.GITHUB_STEP_SUMMARY}

Target(k) == <<out_file, step_summary, full_summary_md, github_output, stdout>>[k]

AlertKinds ==
    {"## Alerts", "alerts<<EOF", "EOF", "All test combinations failed",
     "systematic_heading", "systematic"}

\* the items of the Alerts section in a file
AlertItems(f) ==
    LET alert(item) == item.kind \in AlertKinds
    IN  SelectSeq(f, alert)

SystematicLine(f, title, bucket) ==
    \E i \in 1..Len(f) :
        /\ f[i].kind = "systematic"
        /\ f[i].metric = title
        /\ f[i].bucket = bucket

SystematicHeading(f, title) ==
    \E i \in 1..Len(f) : f[i].kind = "systematic_heading" /\ f[i].metric = title

AnySystematicLine(f) == \E i \in 1..Len(f) : f[i].kind = "systematic"

AlertDimensions ==
    {<<"Tests", by_test>>, <<"Kubernetes versions", by_k8s>>,
     <<"Postgres versions", by_postgres>>, <<"Platforms", by_platform>>}

\* every run of the bucket failed, and there was more than one
Qualifies(buckets, b) ==
    /\ In(b, buckets.failed)
    /\ Get(buckets.failed, b) = Get(buckets.total, b)
    /\ Get(buckets.failed, b) > 1

SomeBucketQualifies ==
    \E dim \in AlertDimensions : \E b \in KeySet(dim[2].total) : Qualifies(dim[2], b)

\* C5, as claimed: a systematic-failure line is printed if and only if some
\* bucket of the four dimensions has failed == total and failed > 1.
C5_AlertIffBucketQualifies ==
    pc = "done" =>
        \A k \in AlertTargets : AnySystematicLine(Target(k)) <=> SomeBucketQualifies

\* C5, amended: unless every test combination failed, each bucket of the four
\* dimensions has its systematic-failure line if and only if failed == total
\* and failed > 1, and a dimension has its heading if and only if it has a
\* line; when every combination failed no such line is printed.
C5_AlertIffQualifiesUnlessAllFailed ==
    pc = "done" =>
        \A k \in AlertTargets : \A dim \in AlertDimensions :
            /\ \A b \in KeySet(dim[2].total) :
                   SystematicLine(Target(k), dim[1], b)
                       <=> (total_runs # total_fails /\ Qualifies(dim[2], b))
            /\ SystematicHeading(Target(k), dim[1])
                   <=> \E b \in KeySet(dim[2].total) :
                           SystematicLine(Target(k), dim[1], b)
            /\ \A i \in 1..Len(Target(k)) :
                   (Target(k)[i].kind = "systematic" /\ Target(k)[i].metric = dim[1])
                       => In(Target(k)[i].bucket, dim[2].total)

C5_Witness ==
    /\ pc = "done"
    /\ SystematicLine(Target(4), "Kubernetes versions", "1.22")
    /\ CountIn(by_test.failed, "t1") = 1
    /\ CountIn(by_test.total, "t1") = 1
    /\ ~SystematicHeading(Target(4), "Tests")
    /\ CountIn(by_test.failed, "t2") = 1
    /\ CountIn(by_test.total, "t2") = 2

\* C6: when total_run equals total_failed the Alerts section of every file is
\* its opening, the one alert "All test combinations failed" and its closing;
\* when they differ and no bucket qualifies no file has an Alerts section.
C6_AllFailedOrOmitted ==
    pc = "done" =>
        \A k \in AlertTargets :
            /\ total_runs = total_fails =>
                   AlertItems(Target(k)) =
                       IF k = 4
                       THEN <<[kind |-> "alerts<<EOF"],
                              [kind |-> "All test combinations failed"],
                              [kind |-> "EOF"]>>
                       ELSE <<[kind |-> "## Alerts"],
                              [kind |-> "All test combinations failed"]>>
            /\ (total_runs # total_fails /\ ~SomeBucketQualifies) =>
                   AlertItems(Target(k)) = <<>>

C6_Witness ==
    /\ pc = "done"
    /\ total_runs = 3
    /\ total_fails = 3
    /\ SomeBucketQualifies
    /\ full_summary_md # <<>>
    /\ Len(AlertItems(github_output)) = 3

\* the records that by_code counts, in the words of the claim: a normal
\* failure with a non-empty error and a state other than ignoreFailed
CountedByCode(r) ==
    /\ r.state = "failed"
    /\ r.error \notin {"", "operator was restarted", "operator was renamed"}
    /\ r.name # "Open Ginkgo report"

DotCount(ts) == Cardinality({i \in 1..Len(ts) : ts[i] = "."})

\* a timestamp is the sentinel, or does not split into exactly two fragments
Untracked(r) ==
    \/ r.start_time = <<"0001-01-01T00:00:00Z">>
    \/ r.end_time = <<"0001-01-01T00:00:00Z">>
    \/ DotCount(r.start_time) # 1
    \/ DotCount(r.end_time) # 1

\* C8: the step at a valid record whose start_time or end_time is the sentinel
\* or does not split into two fragments folds the record and leaves
\* test_durations and suite_durations as they were.
C8_UntrackedKeepsDurations ==
    [][(AtFile /\ ValidArtifact(file) /\ Untracked(file.obj))
        => /\ idx' = idx + 1
           /\ total_runs' = total_runs + 1
           /\ UNCHANGED <<test_durations, suite_durations>>]_vars

C8_Witness ==
    /\ idx = 4
    /\ total_runs = 3
    /\ RecordAt(2).start_time = <<"0001-01-01T00:00:00Z">>
    /\ DotCount(RecordAt(3).start_time) = 2
    /\ ~Untracked(RecordAt(1))
    /\ Len(test_durations.max) = 1
    /\ Len(suite_durations.start_time) = 1

\* the folded records whose durations are tracked
TrackedAt == {i \in FoldedAt : ~Untracked(RecordAt(i))}

StartOf(i) == IsoTable[RecordAt(i).start_time[1]]

EndOf(i) == IsoTable[RecordAt(i).end_time[1]]

TrackedOn(platform, matrix_id) ==
    {i \in TrackedAt :
        RecordAt(i).platform = platform /\ RecordAt(i).matrix_id = matrix_id}

Least(S) == CHOOSE x \in S : \A y \in S : x <= y

Greatest(S) == CHOOSE x \in S : \A y \in S : y <= x

\* the <<platform, matrix_id>> keys of suite_durations.start_time or .end_time
BranchKeys(times) ==
    UNION {{<<times[p][1], times[p][2][m][1]>> : m \in 1..Len(times[p][2])} :
              p \in 1..Len(times)}

\* end minus start of a branch with tracked records
SpanOf(platform, matrix_id) ==
    Greatest({EndOf(i) : i \in TrackedOn(platform, matrix_id)})
    - Least({StartOf(i) : i \in TrackedOn(platform, matrix_id)})

SpansOf(platform) ==
    {SpanOf(platform, RecordAt(i).matrix_id) :
        i \in {j \in TrackedAt : RecordAt(j).platform = platform}}

\* the file that holds the full report once it is written
FullReport ==
    IF args.out THEN out_file
    ELSE IF ~env.GITHUB_STEP_SUMMARY THEN stdout
    ELSE IF full_summary_md # <<>> THEN full_summary_md
    ELSE step_summary

SuiteTables == {i \in 1..Len(FullReport) : FullReport[i].kind = "suite_timing"}

\* C9: suite_durations has exactly the branches with a tracked record, with
\* the earliest start and the latest end of their records; and the suite
\* table of the full report has one row per platform, giving the largest and
\* the smallest span of its branches and a branch whose span is the largest.
C9_SuiteDurations ==
    /\ BranchKeys(suite_durations.start_time)
           = {<<RecordAt(i).platform, RecordAt(i).matrix_id>> : i \in TrackedAt}
    /\ BranchKeys(suite_durations.end_time)
           = BranchKeys(suite_durations.start_time)
    /\ NoDuplicateKeys(suite_durations.start_time)
    /\ \A key \in BranchKeys(suite_durations.start_time) :
           /\ Get(Get(suite_durations.start_time, key[1]), key[2])
                  = Least({StartOf(i) : i \in TrackedOn(key[1], key[2])})
           /\ Get(Get(suite_durations.end_time, key[1]), key[2])
                  = Greatest({EndOf(i) : i \in TrackedOn(key[1], key[2])})
    /\ pc \in {"alerts", "done"} =>
           /\ Cardinality(SuiteTables) = 1
           /\ \A t \in SuiteTables :
                  LET rows == FullReport[t].rows
                  IN  /\ Len(rows) = Len(suite_durations.start_time)
                      /\ {rows[n][4] : n \in 1..Len(rows)}
                             = KeySet(suite_durations.start_time)
                      /\ \A n \in 1..Len(rows) :
                             /\ rows[n][1] = format_duration(Greatest(SpansOf(rows[n][4])))
                             /\ rows[n][2] = format_duration(Least(SpansOf(rows[n][4])))
                             /\ <<rows[n][4], rows[n][3]>>
                                    \in BranchKeys(suite_durations.start_time)
                             /\ SpanOf(rows[n][4], rows[n][3])
                                    = Greatest(SpansOf(rows[n][4]))

C9_Witness ==
    /\ pc = "done"
    /\ total_runs = 2
    /\ RecordAt(1).name # RecordAt(2).name
    /\ suite_durations.start_time = << <<"local", << <<"id1", 66517>> >> >> >>
    /\ suite_durations.end_time = << <<"local", << <<"id1", 66667>> >> >> >>
    /\ \E t \in SuiteTables :
           FullReport[t].rows
               = << <<[min |-> 2, sec |-> 30], [min |-> 2, sec |-> 30], "id1", "local">> >>

\* the seven categories of a record
Category(r, c) ==
    CASE c = 1 -> r["state"] = "passed"
      [] c = 2 -> r["state"] = "skipped"
      [] c = 3 -> r["state"] = "ignoreFailed"
      [] c = 4 -> is_external_failure(r)
      [] c = 5 -> is_special_error(r)
      [] c = 6 -> is_ginkgo_report_failure(r)
      [] c = 7 -> is_normal_failure(r)

\* C10: for every folded record exactly one of the seven categories holds.
C10_ExactlyOneCategory ==
    \A i \in FoldedAt :
        Cardinality({c \in 1..7 : Category(combine_postgres_data(RecordAt(i)), c)}) = 1

\* a failed record that is an external failure, a special error or a report
\* failure
SpecialFailure(r) ==
    /\ StateFailed(r)
    /\ \/ r.state # "failed"
       \/ r.error \in {"operator was restarted", "operator was renamed"}
       \/ r.name = "Open Ginkgo report"

\* C11: total_special_fails is the number of folded records that are failed
\* and are external failures, special errors or report failures; it never
\* exceeds total_failed.
C11_SpecialFailsCountSpecialFailures ==
    /\ total_special_fails
           = Cardinality({i \in FoldedAt : SpecialFailure(RecordAt(i))})
    /\ total_special_fails <= total_fails

\* no output file is given, a step-summary file is configured and a non-zero
\* limit is given
LimitedStepSummary == ~args.out /\ env.GITHUB_STEP_SUMMARY /\ args.limit # 0

\* the size of the step summary has been compared with the limit
LimitDecided ==
    \E i \in 1..Len(stdout) : stdout[i].kind = "with GITHUB_STEP_SUMMARY limit"

OverflowLines(f) == {i \in 1..Len(f) : f[i].kind = "Overflow=full-summary.md"}

\* C12: with no output file, a step-summary file and a non-zero limit, the
\* full report is first written to the step summary; once its size has been
\* compared with the limit, the run goes on to its end with, when the size
\* exceeds the limit, the short report alone in the step summary, the full
\* report in full-summary.md and one Overflow line in the output parameters,
\* and otherwise the full report in the step summary, no full-summary.md and
\* no Overflow line.
C12_StepSummaryLimit ==
    LimitedStepSummary =>
        /\ pc = "limit" =>
               /\ step_summary = format_test_summary(summary)
               /\ full_summary_md = <<>>
               /\ OverflowLines(github_output) = {}
        /\ LimitDecided =>
               /\ pc \in {"alerts", "done"}
               /\ IF st_size(format_test_summary(summary)) > args.limit
                  THEN /\ step_summary = format_short_test_summary(summary)
                       /\ full_summary_md = format_test_summary(summary)
                       /\ OverflowLines(github_output) = {1}
                  ELSE /\ step_summary = format_test_summary(summary)
                       /\ full_summary_md = <<>>
                       /\ OverflowLines(github_output) = {}

\* C12 in the environments that set GITHUB_OUTPUT
C12_StepSummaryLimitWithOutput ==
    env.GITHUB_OUTPUT => C12_StepSummaryLimit

C12_OverflowReached ==
    /\ pc = "done"
    /\ LimitedStepSummary
    /\ env.GITHUB_OUTPUT
    /\ full_summary_md # <<>>

\* a dict as a function of its keys, whatever their insertion order
AsMap(d) == [k \in KeySet(d) |-> Get(d, k)]

\* a dict of sets
AsSets(d) == [k \in KeySet(d) |-> KeySet(Get(d, k))]

\* a dict of dicts
AsNested(d) == [k \in KeySet(d) |-> AsMap(Get(d, k))]

\* the records folded so far, in the order of the listing
FoldedRecords ==
    LET valid == SelectSeq(SubSeq(dir_listing, 1, idx - 1), ValidArtifact)
    IN  [i \in 1..Len(valid) |-> valid[i].obj]

Orderings(n) ==
    {p \in [1..n -> 1..n] : \A i, j \in 1..n : p[i] = p[j] => i = j}

Reordered(records, p) == [i \in 1..Len(records) |-> records[p[i]]]

\* a summary without the order of its dicts, its by_code error texts and its
\* slowest branches
Unordered(s) ==
    [total_run |-> s.total_run,
     total_failed |-> s.total_failed,
     total_special_fails |-> s.total_special_fails,
     by_test |-> [total |-> AsMap(s.by_test.total),
                  failed |-> AsMap(s.by_test.failed),
                  k8s_versions_failed |-> AsSets(s.by_test.k8s_versions_failed),
                  pg_versions_failed |-> AsSets(s.by_test.pg_versions_failed),
                  platforms_failed |-> AsSets(s.by_test.platforms_failed)],
     by_code |-> [total |-> AsMap(s.by_code.total),
                  tests |-> AsSets(s.by_code.tests),
                  errors |-> KeySet(s.by_code.errors)],
     by_special_failures |->
         [total |-> AsMap(s.by_special_failures.total),
          tests_failed |-> AsSets(s.by_special_failures.tests_failed),
          k8s_versions_failed |-> AsSets(s.by_special_failures.k8s_versions_failed),
          pg_versions_failed |-> AsSets(s.by_special_failures.pg_versions_failed),
          platforms_failed |-> AsSets(s.by_special_failures.platforms_failed)],
     by_matrix |-> [total |-> AsMap(s.by_matrix.total),
                    failed |-> AsMap(s.by_matrix.failed)],
     by_k8s |-> [total |-> AsMap(s.by_k8s.total), failed |-> AsMap(s.by_k8s.failed)],
     by_postgres |-> [total |-> AsMap(s.by_postgres.total),
                      failed |-> AsMap(s.by_postgres.failed)],
     by_platform |-> [total |-> AsMap(s.by_platform.total),
                      failed |-> AsMap(s.by_platform.failed)],
     test_durations |-> [max |-> AsMap(s.test_durations.max),
                         min |-> AsMap(s.test_durations.min),
                         slowest_branch |-> KeySet(s.test_durations.slowest_branch)],
     suite_durations |-> [start_time |-> AsNested(s.suite_durations.start_time),
                          end_time |-> AsNested(s.suite_durations.end_time)]]

CodeKey(r) == r.error_file \o ":" \o r.error_line

\* the by_code keys whose records all carry the same error text
UnanimousKeys(records) ==
    {CodeKey(records[i]) :
        i \in {j \in 1..Len(records) :
                  /\ CountedByCode(records[j])
                  /\ \A l \in 1..Len(records) :
                         (CountedByCode(records[l])
                              /\ CodeKey(records[l]) = CodeKey(records[j]))
                             => records[l].error = records[j].error}}

SameErrorTexts(s, t, records) ==
    \A key \in UnanimousKeys(records) :
        Get(s.by_code.errors, key) = Get(t.by_code.errors, key)

\* the name the durations of a record are kept under
DurationName(r) ==
    IF r.state \notin {"passed", "skipped", "ignoreFailed", "failed"}
    THEN "[" \o r.state \o "] " \o r.name
    ELSE IF r.error \in {"operator was restarted", "operator was renamed"}
    THEN "[" \o r.error \o "] " \o r.name
    ELSE r.name

DurationOf(r) == IsoTable[r.end_time[1]] - IsoTable[r.start_time[1]]

\* the matrix branches of the records kept under a name whose duration is the
\* largest of that name
MaxBranches(records, name) ==
    LET tracked == {i \in 1..Len(records) :
                       ~Untracked(records[i]) /\ DurationName(records[i]) = name}
    IN  {records[i].matrix_id :
            i \in {j \in tracked :
                      \A l \in tracked : DurationOf(records[l]) <= DurationOf(records[j])}}

\* C13, as claimed: when the fold is over, the summary of the same records
\* folded in any other order is the same, dicts compared without their order,
\* but for the by_code error text of a key whose records differ in their text.
C13_OrderIndependent ==
    pc = "report" =>
        /\ compute_test_summary(FoldedRecords) = summary
        /\ \A p \in Orderings(Len(FoldedRecords)) :
               LET t == compute_test_summary(Reordered(FoldedRecords, p))
               IN  /\ Unordered(t) = Unordered(summary)
                   /\ SameErrorTexts(t, summary, FoldedRecords)
                   /\ AsMap(t.test_durations.slowest_branch)
                          = AsMap(test_durations.slowest_branch)

\* C13, amended: the same, but for the slowest branch of a name whose largest
\* duration is reached by records of several matrix branches, which in every
\* order is one of those branches.
C13_OrderIndependentButTies ==
    pc = "report" =>
        /\ compute_test_summary(FoldedRecords) = summary
        /\ \A p \in Orderings(Len(FoldedRecords)) :
               LET t == compute_test_summary(Reordered(FoldedRecords, p))
               IN  /\ Unordered(t) = Unordered(summary)
                   /\ SameErrorTexts(t, summary, FoldedRecords)
                   /\ \A name \in KeySet(t.test_durations.slowest_branch) :
                          Get(t.test_durations.slowest_branch, name)
                              \in MaxBranches(FoldedRecords, name)

C13_Witness ==
    /\ pc = "report"
    /\ Len(FoldedRecords) = 3
    /\ \E name \in KeySet(test_durations.max) :
           Cardinality(MaxBranches(FoldedRecords, name)) = 2
    /\ \E p \in Orderings(3) :
           LET t == compute_test_summary(Reordered(FoldedRecords, p))
           IN  /\ Keys(t.by_test.total) # Keys(by_test.total)
               /\ AsMap(t.test_durations.slowest_branch)
                      # AsMap(test_durations.slowest_branch)

FailureTables == <<"by_test", "by_code", "by_matrix", "by_k8s", "by_postgres", "by_platform">>

\* the place of an item of the full report in the order of its sections
SectionOf(item) ==
    CASE item.kind = "Note" -> 0
      [] item.kind = "Index" -> 1
      [] item.kind \in AlertKinds -> 2
      [] item.kind = "Overview" -> 3
      [] item.kind = "by_special_failure" -> 4
      [] item.kind = "No failures" -> 4
      [] \E n \in 1..6 : item.kind = FailureTables[n] ->
             4 + (CHOOSE n \in 1..6 : item.kind = FailureTables[n])
      [] item.kind = "suite_timing" -> 11
      [] item.kind = "timing" -> 12
      [] OTHER -> 13

Occurrences(f, kind) == Cardinality({i \in 1..Len(f) : f[i].kind = kind})

\* C14: the full report has its sections in the order index line, alerts,
\* overview, failure tables, suite-duration table, test-duration table; the
\* index line and the failure tables are there if and only if total_failed is
\* not zero, the "No failures" sentence if and only if it is zero, and the
\* overview and the two duration tables always.
C14_FullReportSections ==
    pc \in {"alerts", "done"} =>
        /\ \A i, j \in 1..Len(FullReport) :
               i < j => /\ SectionOf(FullReport[i]) <= SectionOf(FullReport[j])
                        /\ SectionOf(FullReport[i]) # 13
        /\ Occurrences(FullReport, "Overview") = 1
        /\ Occurrences(FullReport, "suite_timing") = 1
        /\ Occurrences(FullReport, "timing") = 1
        /\ Occurrences(FullReport, "Index") = (IF total_fails # 0 THEN 1 ELSE 0)
        /\ \A n \in 1..6 :
               Occurrences(FullReport, FailureTables[n])
                   = (IF total_fails # 0 THEN 1 ELSE 0)
        /\ Occurrences(FullReport, "by_special_failure") <= 1
        /\ total_fails = 0 => Occurrences(FullReport, "by_special_failure") = 0
        /\ Occurrences(FullReport, "No failures") = (IF total_fails = 0 THEN 1 ELSE 0)

C14_Witness ==
    /\ pc = "done"
    /\ total_runs = 3
    /\ total_fails = 0
    /\ Occurrences(FullReport, "No failures") = 1
    /\ \E i \in 1..Len(FullReport) :
           FullReport[i].kind = "timing" /\ Len(FullReport[i].rows) = 2

\* the folded records by_test counts as failed: failed, and not the report
FailedInTest(name) ==
    {i \in FoldedAt :
        /\ RecordAt(i).name = name
        /\ StateFailed(RecordAt(i))
        /\ RecordAt(i).name # "Open Ginkgo report"}

\* the sum of the counts of a dict
SumValues(d) ==
    LET RECURSIVE sum(_)
        sum(n) == IF n = 0 THEN 0 ELSE d[n][2] + sum(n - 1)
    IN  sum(Len(d))

\* C15: by_test total[name] is the number of folded records with that name,
\* failed[name] the number of those that are failed and are not report
\* failures, and the failed-breakdown sets of the name hold the k8s versions,
\* pg versions and platforms of exactly those records; a failed report failure
\* is counted as failed in the four dimensions and not in by_test.
C15_ByTestCounts ==
    /\ NoDuplicateKeys(by_test.total)
    /\ NoDuplicateKeys(by_test.failed)
    /\ KeySet(by_test.total) = {RecordAt(i).name : i \in FoldedAt}
    /\ \A name \in KeySet(by_test.total) :
           /\ Get(by_test.total, name)
                  = Cardinality({i \in FoldedAt : RecordAt(i).name = name})
           /\ CountIn(by_test.failed, name) = Cardinality(FailedInTest(name))
           /\ In(name, by_test.failed) <=> FailedInTest(name) # {}
           /\ In(name, by_test.failed) =>
                  /\ KeySet(Get(by_test.k8s_versions_failed, name))
                         = {RecordAt(i).k8s_version : i \in FailedInTest(name)}
                  /\ KeySet(Get(by_test.pg_versions_failed, name))
                         = {PgVersionOf(RecordAt(i)) : i \in FailedInTest(name)}
                  /\ KeySet(Get(by_test.platforms_failed, name))
                         = {RecordAt(i).platform : i \in FailedInTest(name)}
    /\ KeySet(by_test.failed) \subseteq KeySet(by_test.total)
    /\ KeySet(by_test.k8s_versions_failed) = KeySet(by_test.failed)
    /\ KeySet(by_test.pg_versions_failed) = KeySet(by_test.failed)
    /\ KeySet(by_test.platforms_failed) = KeySet(by_test.failed)
    /\ \A buckets \in {by_matrix, by_k8s, by_postgres, by_platform} :
           SumValues(buckets.failed)
               = Cardinality({i \in FoldedAt : StateFailed(RecordAt(i))})
    /\ SumValues(by_test.failed)
           = Cardinality({i \in FoldedAt :
                             /\ StateFailed(RecordAt(i))
                             /\ RecordAt(i).name # "Open Ginkgo report"})

C15_Witness ==
    /\ pc = "report"
    /\ total_runs = 3
    /\ \E i \in FoldedAt :
           RecordAt(i).name = "Open Ginkgo report" /\ RecordAt(i).state = "failed"
    /\ ~In("Open Ginkgo report", by_test.failed)
    /\ CountIn(by_test.total, "t1") = 2
    /\ CountIn(by_test.failed, "t1") = 1
    /\ KeySet(Get(by_test.platforms_failed, "t1")) = {"local"}
    /\ SumValues(by_matrix.failed) = 2

\* the label of a special failure, in the words of the claim: the state of an
\* external failure, the error otherwise
ClaimedLabel(r) == IF r.state # "failed" THEN r.state ELSE r.error

\* C16: by_special_failures counts every failed record that is not a normal
\* failure under one label, its state when it is an external failure and its
\* error otherwise, also when an external failure carries a special error
\* text or the report name.
C16_SpecialFailureLabel ==
    /\ NoDuplicateKeys(by_special_failures.total)
    /\ KeySet(by_special_failures.total)
           = {ClaimedLabel(RecordAt(i)) :
                 i \in {j \in FoldedAt : SpecialFailure(RecordAt(j))}}
    /\ \A label \in KeySet(by_special_failures.total) :
           Get(by_special_failures.total, label)
               = Cardinality({i \in FoldedAt :
                                 /\ SpecialFailure(RecordAt(i))
                                 /\ ClaimedLabel(RecordAt(i)) = label})

\* the step folds a record whose failure is infrastructure-level
FoldsSpecialFailure ==
    /\ AtFile
    /\ ValidArtifact(file)
    /\ SpecialFailure(file.obj)
    /\ idx' = idx + 1

ByTestFailedUnchanged ==
    UNCHANGED <<by_test.failed, by_test.k8s_versions_failed,
                by_test.pg_versions_failed, by_test.platforms_failed>>

\* C17, as claimed: folding a record whose failure is infrastructure-level
\* leaves by_code and the failed counts and failed-breakdown sets of by_test
\* unchanged, and increments total_failed and total_special_fails.
C17_SpecialFailureFrame ==
    [][FoldsSpecialFailure =>
           /\ UNCHANGED by_failing_code
           /\ ByTestFailedUnchanged
           /\ total_fails' = total_fails + 1
           /\ total_special_fails' = total_special_fails + 1]_vars

\* C17, amended: such a fold leaves by_code unchanged and increments
\* total_failed and total_special_fails; it leaves the failed counts and
\* breakdown sets of by_test unchanged when the record is the report failure,
\* and otherwise adds one to the failed count of the record's name and the
\* record's k8s version, pg version and platform to its breakdown sets.
C17_SpecialFailureFrameButByTest ==
    [][FoldsSpecialFailure =>
           /\ UNCHANGED by_failing_code
           /\ total_fails' = total_fails + 1
           /\ total_special_fails' = total_special_fails + 1
           /\ IF file.obj.name = "Open Ginkgo report"
              THEN ByTestFailedUnchanged
              ELSE LET name == file.obj.name
                       before(d) == IF In(name, d) THEN KeySet(Get(d, name)) ELSE {}
                   IN  /\ CountIn(by_test.failed', name)
                              = CountIn(by_test.failed, name) + 1
                       /\ KeySet(Get(by_test.k8s_versions_failed', name))
                              = before(by_test.k8s_versions_failed)
                                    \cup {file.obj.k8s_version}
                       /\ KeySet(Get(by_test.pg_versions_failed', name))
                              = before(by_test.pg_versions_failed)
                                    \cup {PgVersionOf(file.obj)}
                       /\ KeySet(Get(by_test.platforms_failed', name))
                              = before(by_test.platforms_failed)
                                    \cup {file.obj.platform}
                       /\ \A other \in KeySet(by_test.failed) \ {name} :
                              /\ CountIn(by_test.failed', other)
                                     = CountIn(by_test.failed, other)
                              /\ Get(by_test.platforms_failed', other)
                                     = Get(by_test.platforms_failed, other)]_vars

C17_Witness ==
    /\ idx = 4
    /\ total_runs = 3
    /\ CountedByCode(RecordAt(1))
    /\ RecordAt(2).state = "failed"
    /\ RecordAt(2).error = "operator was restarted"
    /\ RecordAt(3) = RecordAt(2)
    /\ by_failing_code.total = << <<CodeKey(RecordAt(1)), 1>> >>
    /\ CountIn(by_test.failed, RecordAt(2).name) = 3
    /\ total_special_fails = 2

\* the folded records whose durations are kept under a name
TrackedAs(name) == {i \in TrackedAt : DurationName(RecordAt(i)) = name}

\* the first folded record kept under a name whose duration is the largest
FirstLongest(name) ==
    LET longest == Greatest({DurationOf(RecordAt(i)) : i \in TrackedAs(name)})
    IN  Least({i \in TrackedAs(name) : DurationOf(RecordAt(i)) = longest})

\* C18: min, max and slowest_branch of test_durations have the same keys, the
\* names of the tracked records; for each, min is the smallest and max the
\* largest duration of its records, and slowest_branch the matrix branch of
\* the first record folded whose duration is the largest.
C18_TestDurations ==
    /\ NoDuplicateKeys(test_durations.max)
    /\ NoDuplicateKeys(test_durations.min)
    /\ NoDuplicateKeys(test_durations.slowest_branch)
    /\ KeySet(test_durations.max) = {DurationName(RecordAt(i)) : i \in TrackedAt}
    /\ KeySet(test_durations.min) = KeySet(test_durations.max)
    /\ KeySet(test_durations.slowest_branch) = KeySet(test_durations.max)
    /\ \A name \in KeySet(test_durations.max) :
           /\ Get(test_durations.max, name)
                  = Greatest({DurationOf(RecordAt(i)) : i \in TrackedAs(name)})
           /\ Get(test_durations.min, name)
                  = Least({DurationOf(RecordAt(i)) : i \in TrackedAs(name)})
           /\ Get(test_durations.min, name) <= Get(test_durations.max, name)
           /\ Get(test_durations.slowest_branch, name)
                  = RecordAt(FirstLongest(name)).matrix_id

\* a record as long as the longest of its name, on another branch, was folded
\* after it
C18_Witness ==
    /\ idx = 4
    /\ total_runs = 3
    /\ \E name \in KeySet(test_durations.max) :
           /\ Cardinality(TrackedAs(name)) = 2
           /\ Cardinality(MaxBranches(FoldedRecords, name)) = 2
           /\ FirstLongest(name) = 1
           /\ Get(test_durations.slowest_branch, name) = RecordAt(1).matrix_id
    /\ Len(test_durations.max) = 2

\* the rendering "{m} min {s} sec" is that of a whole number of seconds
Renders(text, seconds) ==
    /\ 0 <= text.sec
    /\ text.sec < 60
    /\ text.min * 60 + text.sec = seconds

\* C19: every duration of the test-duration table of the full report, the
\* longest and the shortest of each name, spans of a day or more and negative
\* spans included, is rendered as minutes and seconds that add up to it.
C19_DurationRendersWholeSeconds ==
    pc \in {"alerts", "done"} =>
        \A t \in {i \in 1..Len(FullReport) : FullReport[i].kind = "timing"} :
            \A n \in 1..Len(FullReport[t].rows) :
                LET row == FullReport[t].rows[n]
                IN  /\ Renders(row[1], Get(test_durations.max, row[4]))
                    /\ Renders(row[2], Get(test_durations.min, row[4]))

\* C20: the alert "All test combinations failed" is printed only when at
\* least one test combination ran and all of them failed; a directory without
\* a valid artifact gives no alert.
C20_AllFailedNeedsARun ==
    pc = "done" =>
        \A k \in AlertTargets :
            /\ Occurrences(Target(k), "All test combinations failed") > 0
                   => (total_runs >= 1 /\ total_fails = total_runs)
            /\ total_runs = 0 => AlertItems(Target(k)) = <<>>

\* every key of failed is a key of total, with 1 <= failed[k] <= total[k]
FailedWithinTotal(buckets) ==
    \A k \in KeySet(buckets.failed) :
        /\ In(k, buckets.total)
        /\ 1 <= Get(buckets.failed, k)
        /\ Get(buckets.failed, k) <= Get(buckets.total, k)

\* the rows of the table of a kind in the full report, none when it has no
\* such table
RowsOf(kind) ==
    LET tables == {i \in 1..Len(FullReport) : FullReport[i].kind = kind}
    IN  IF tables = {} THEN <<>> ELSE FullReport[CHOOSE i \in tables : TRUE].rows

\* C21: every summary the fold reaches has the keys its rendering looks up:
\* the keys of failed are keys of total with 1 <= failed <= total, in by_test
\* and in the four dimensions; the keys of by_test failed are keys of its
\* three breakdown maps, those of by_code total keys of tests and errors,
\* those of by_special_failures total keys of its four breakdown maps; the
\* start and end times of suite_durations have the same platforms and
\* branches; and the full report has a row for every such key.
C21_SummaryRenders ==
    /\ \A buckets \in {by_test, by_matrix, by_k8s, by_postgres, by_platform} :
           FailedWithinTotal(buckets)
    /\ KeySet(by_test.failed) \subseteq KeySet(by_test.k8s_versions_failed)
    /\ KeySet(by_test.failed) \subseteq KeySet(by_test.pg_versions_failed)
    /\ KeySet(by_test.failed) \subseteq KeySet(by_test.platforms_failed)
    /\ KeySet(by_failing_code.total) \subseteq KeySet(by_failing_code.tests)
    /\ KeySet(by_failing_code.total) \subseteq KeySet(by_failing_code.errors)
    /\ KeySet(by_special_failures.total) \subseteq KeySet(by_special_failures.tests_failed)
    /\ KeySet(by_special_failures.total)
           \subseteq KeySet(by_special_failures.k8s_versions_failed)
    /\ KeySet(by_special_failures.total)
           \subseteq KeySet(by_special_failures.pg_versions_failed)
    /\ KeySet(by_special_failures.total)
           \subseteq KeySet(by_special_failures.platforms_failed)
    /\ BranchKeys(suite_durations.start_time) = BranchKeys(suite_durations.end_time)
    /\ pc \in {"alerts", "done"} =>
           /\ {row[4] : row \in {RowsOf("suite_timing")[n] :
                                    n \in 1..Len(RowsOf("suite_timing"))}}
                  = KeySet(suite_durations.start_time)
           /\ total_fails # 0 =>
                  /\ Len(RowsOf("by_test")) = Len(by_test.failed)
                  /\ Len(RowsOf("by_code")) = Len(by_failing_code.total)
                  /\ Len(RowsOf("by_matrix")) = Len(by_matrix.failed)
                  /\ Len(RowsOf("by_k8s")) = Len(by_k8s.failed)
                  /\ Len(RowsOf("by_postgres")) = Len(by_postgres.failed)
                  /\ Len(RowsOf("by_platform")) = Len(by_platform.failed)
                  /\ total_special_fails > 0 =>
                         Len(RowsOf("by_special_failure"))
                             = Len(by_special_failures.total)

C21_Witness ==
    /\ pc = "done"
    /\ total_runs = 3
    /\ Len(by_test.failed) = 2
    /\ Len(by_failing_code.total) = 1
    /\ Len(by_special_failures.total) = 1
    /\ Len(RowsOf("by_special_failure")) = 1
    /\ Len(RowsOf("by_test")) = 2
    /\ Len(RowsOf("suite_timing")) = 1

====
